---- MODULE Spec2Model ----
(***************************************************************************)
(* MailAgent: inbox synchronisation and reply dispatch.                    *)
(*                                                                         *)
(* The model follows the Python sources: app/storage.py and                *)
(* app/db_storage.py (Credential Store), app/email_client.py (poller,      *)
(* message cache, SMTP submit, IMAP connectivity test), app/ai_client.py   *)
(* (collaborator calls), app/main.py (scheduling loop) and                 *)
(* app/telegram_bot.py (owner check, reply paths, onboarding FSM).         *)
(*                                                                         *)
(* Coroutines are cut at their await points: one action is the code that   *)
(* runs between two awaits on the asyncio event loop.  Results of the      *)
(* external calls (IMAP, SMTP, PostgreSQL, the file system, the language   *)
(* model) are inputs drawn with \E.  The \Seen flag of a message is the    *)
(* flag the code stores with mail.store(id, '+FLAGS', '\Seen').            *)
(***************************************************************************)
EXTENDS Integers, Sequences, FiniteSets, Bags, TLC

(***************************************************************************)
(* Bounds of the model.                                                    *)
(***************************************************************************)
MaxTime == 2
MaxMsgs == 2
MaxSubmits == 1
Backlog == 11
MaxBatchTime == 10

(***************************************************************************)
(* Program constants.                                                      *)
(***************************************************************************)
BatchCap == 10
GmailSmtpPort == 587

Accounts == {1, 2}
Procs == {"loop", "manual"}

VARIABLES
    \* Credential Store backings
    pgConfigured,   \* DATABASE_URL is set
    db,             \* rows of table email_accounts: key -> account data
    envJson,        \* EMAIL_ACCOUNTS_JSON: [state: "unset" | "invalid" | "map", accounts]
    file,           \* email_accounts.json: [exists, accounts]
    \* mail servers and clock
    inbox,          \* per account: the INBOX in arrival order
    seen,           \* messages carrying \Seen
    nmsgs,          \* messages delivered so far
    now,            \* datetime.now() in milliseconds
    \* poller
    cache,          \* EMAIL_CACHE: local id -> email_data
    notes,          \* bag of notifications the poller asked send_notification for
    diag,           \* the last diagnostic notification the poller asked for
    poll,           \* per caller: the running check_account_emails
    todo,           \* per caller: accounts it still has to check
    loopPc,         \* email_checker_loop: "top", "busy", "sleep", "stopped"
    running,        \* main.running
    \* bot
    ownerId,        \* telegram_bot.OWNER_TELEGRAM_ID
    oauthConfigured,\* oauth_client.CLIENT_ID and CLIENT_SECRET are set
    fsm,            \* MemoryStorage: per sender the FSM state and its data
    submits,        \* the calls of smtp_send, in order
    answer,         \* outcome of the last update the bot handled
    calling         \* the synchronous collaborator call the event-loop thread is in

storeVars == <<pgConfigured, db, envJson, file>>
mailVars == <<inbox, seen, nmsgs, now>>
pollVars == <<cache, notes, diag, poll, todo, loopPc, running>>
botVars == <<ownerId, oauthConfigured, fsm, submits, answer, calling>>
vars == <<storeVars, mailVars, pollVars, botVars>>

(***************************************************************************)
(* Python dicts are functions; {} is the function with the empty domain.   *)
(***************************************************************************)
EmptyDict == [k \in {} |-> 0]

DictSet(d, k, v) == [x \in DOMAIN d \cup {k} |-> IF x = k THEN v ELSE d[x]]

AcctKey(a) == IF a = 1 THEN "1" ELSE IF a = 2 THEN "2" ELSE "other"

\* truthiness of one value of an account dict (the port is an int, the rest strings)
TruthyField(d, k) ==
    /\ k \in DOMAIN d
    /\ IF k = "smtp_port" THEN d[k] # 0 ELSE d[k] # ""

(***************************************************************************)
(* Results of one call into the outside world.                             *)
(*   pg    the PostgreSQL connection works (is_postgresql_available)       *)
(*   dbok  the SQL statements of this call succeed                         *)
(*   fok   the file operation of this call succeeds                        *)
(***************************************************************************)
IOs == [pg : BOOLEAN, dbok : BOOLEAN, fok : BOOLEAN]

\* every storage call works
IO0 == [pg |-> TRUE, dbok |-> TRUE, fok |-> TRUE]

is_postgresql_available(io) == pgConfigured /\ io.pg

load_accounts_from_db(io) == IF io.dbok THEN db ELSE EmptyDict

load_accounts(io) ==
    IF is_postgresql_available(io)
    THEN load_accounts_from_db(io)
    ELSE IF envJson.state = "map"
         THEN envJson.accounts
         ELSE IF ~file.exists THEN EmptyDict
              ELSE IF io.fok THEN file.accounts ELSE EmptyDict

get_account(a, io) ==
    LET accounts == load_accounts(io)
    IN  IF AcctKey(a) \in DOMAIN accounts THEN accounts[AcctKey(a)] ELSE EmptyDict

\* save_accounts_to_db: <<returned flag, rows of email_accounts afterwards>>
\* (DELETE FROM email_accounts, INSERT every account, commit; rollback on error)
save_accounts_to_db(accounts, io) ==
    IF accounts = EmptyDict THEN <<FALSE, db>>
    ELSE IF io.pg /\ io.dbok THEN <<TRUE, accounts>> ELSE <<FALSE, db>>

\* save_accounts without the guard of its first lines
save_accounts_unguarded(accounts, io) ==
    IF is_postgresql_available(io) /\ save_accounts_to_db(accounts, io)[1]
    THEN <<save_accounts_to_db(accounts, io)[2], file>>
    ELSE <<db, IF io.fok THEN [exists |-> TRUE, accounts |-> accounts] ELSE file>>

\* the pair <<db', file'>> save_accounts leaves behind
save_accounts(accounts, io) ==
    IF accounts = EmptyDict THEN <<db, file>>
    ELSE IF is_postgresql_available(io) /\ save_accounts_to_db(accounts, io)[1]
         THEN <<save_accounts_to_db(accounts, io)[2], file>>
         ELSE <<db, IF io.fok THEN [exists |-> TRUE, accounts |-> accounts] ELSE file>>

\* the pair <<db', file'>> save_account leaves behind
save_account(a, data, ioLoad, ioSave) ==
    IF data = EmptyDict \/ ~(\E k \in DOMAIN data : TruthyField(data, k))
    THEN <<db, file>>
    ELSE save_accounts(DictSet(load_accounts(ioLoad), AcctKey(a), data), ioSave)

PasswordAccount(host, user, pass, smtp, port) ==
    [imap_host |-> host, imap_user |-> user, imap_pass |-> pass,
     smtp_host |-> smtp, smtp_port |-> port]

Usable(account) ==
    /\ TruthyField(account, "imap_host")
    /\ TruthyField(account, "imap_user")
    /\ TruthyField(account, "imap_pass")

(***************************************************************************)
(* Messages.  A message is its arrival number; its headers are fixed.      *)
(***************************************************************************)
\* header values are sequences of tokens
MsgFrom(m) == IF m % 2 = 1 THEN <<"Jane", "<", "jane@x.com", ">">> ELSE <<"bob@y.com">>
MsgSubject(m) == IF m % 2 = 1 THEN <<"Status">> ELSE <<"Re:", "status">>

RECURSIVE Take(_, _)
Take(s, n) == IF n = 0 \/ s = <<>> THEN <<>> ELSE <<Head(s)>> \o Take(Tail(s), n - 1)

\* a search whose whole result is processed
imap_search_all(a) == SelectSeq(inbox[a], LAMBDA m : m \notin seen)

\* mail.search(None, '(UNSEEN SINCE date)') and email_ids[:10]
imap_search(a) == Take(SelectSeq(inbox[a], LAMBDA m : m \notin seen), BatchCap)

(***************************************************************************)
(* Collaborator calls of the classification pipeline.                      *)
(***************************************************************************)
SummaryError == "summary-error"

summarize_email(ok) == IF ok THEN "summary" ELSE SummaryError

AnalysisDefault == [priority |-> "medium", category |-> "work", reason |-> ""]

analyze_email_priority_and_category(ok, res) == IF ok THEN res ELSE AnalysisDefault

\* dict.get(key, default)
DictGet(d, k, default) == IF k \in DOMAIN d THEN d[k] ELSE default

LocalId(a, ts) == <<a, ts>>

EmailData(a, m, ts, summary, pdata) ==
    [local_id |-> LocalId(a, ts), account_id |-> a,
     from |-> MsgFrom(m), subject |-> MsgSubject(m),
     summary |-> summary,
     priority |-> DictGet(pdata, "priority", "medium"),
     category |-> DictGet(pdata, "category", "work"),
     priority_reason |-> DictGet(pdata, "reason", ""),
     original_msg |-> m]

\* send_notification(text, local_id, category): is the reply button attached
NoLocalId == <<>>

ReplyButton(local_id, category) ==
    local_id # NoLocalId /\ category \notin {"spam", "newsletter"}

\* the notification check_account_emails asks for: telegram_notify_func(message, local_id)
Notification(local_id, pdata) ==
    [local_id |-> local_id,
     compact |-> DictGet(pdata, "category", "None") \in {"spam", "newsletter"},
     button |-> ReplyButton(local_id, "None")]

(***************************************************************************)
(* check_account_emails, one record per caller.                            *)
(***************************************************************************)
Idle == [pc |-> "idle", acct |-> 0, ids |-> <<>>, msg |-> 0, summary |-> "",
         ts |-> 0, pdata |-> EmptyDict]

\* the call check_account_emails(a) up to its first await, for the first account of
\* `rest` whose settings are complete; f gives the outcome of each get_account
RECURSIVE NextCall(_, _)
NextCall(rest, f) ==
    IF rest = <<>> THEN <<Idle, <<>>>>
    ELSE IF Usable(get_account(Head(rest), f[Head(rest)]))
         THEN <<[Idle EXCEPT !.pc = "connect", !.acct = Head(rest)], Tail(rest)>>
         ELSE NextCall(Tail(rest), f)

\* a caller that gives up when check_account_emails has returned
ReturnFatal(p, f) ==
    /\ poll' = [poll EXCEPT ![p] = Idle]
    /\ todo' = [todo EXCEPT ![p] = <<>>]
    /\ loopPc' = IF p = "loop" THEN "stopped" ELSE loopPc

\* check_account_emails returns to its caller, which goes on
Return(p, f) ==
    LET nc == NextCall(todo[p], f)
    IN  /\ poll' = [poll EXCEPT ![p] = nc[1]]
        /\ todo' = [todo EXCEPT ![p] = nc[2]]
        /\ loopPc' = IF p = "loop" /\ nc[1].pc = "idle" THEN "sleep" ELSE loopPc

\* the accounts "1" and "2" of a loaded mapping, in the order the callers check them
Configured(accounts) ==
    (IF "1" \in DOMAIN accounts THEN <<1>> ELSE <<>>) \o
    (IF "2" \in DOMAIN accounts THEN <<2>> ELSE <<>>)

\* a loop that gives up the rest of the batch
AdvanceAbort(p, r) ==
    [r EXCEPT !.pc = "close", !.ids = <<>>, !.msg = 0,
              !.summary = "", !.ts = 0, !.pdata = EmptyDict]

\* `continue` / the end of one pass of `for email_id_bytes in email_ids`
Advance(p, r) ==
    IF Len(r.ids) > 1
    THEN [r EXCEPT !.pc = "fetch", !.ids = Tail(r.ids), !.msg = Head(Tail(r.ids)),
                   !.summary = "", !.ts = 0, !.pdata = EmptyDict]
    ELSE [r EXCEPT !.pc = "close", !.ids = <<>>, !.msg = 0,
                   !.summary = "", !.ts = 0, !.pdata = EmptyDict]

(***************************************************************************)
(* The text of an imaplib.IMAP4.error, by the markers the code looks for:  *)
(*   asp      "application-specific password" or "app password"            *)
(*   auth     "authentication" or "login"                                  *)
(*   failure  "failure"                                                    *)
(***************************************************************************)
ImapErrors == [asp : BOOLEAN, auth : BOOLEAN, failure : BOOLEAN]

\* the except clauses that end check_account_emails: the diagnostic sent
PollDiagnostic(a, kind, text) ==
    IF kind = "imap"
    THEN (IF text.auth THEN <<a, "authorization">> ELSE <<a, "imap">>)
    ELSE <<a, "error">>

(***************************************************************************)
(* Environment: a message arrives, the clock advances.                     *)
(***************************************************************************)
Deliver(a) ==
    /\ nmsgs < MaxMsgs
    /\ nmsgs' = nmsgs + 1
    /\ inbox' = [inbox EXCEPT ![a] = Append(@, nmsgs + 1)]
    /\ UNCHANGED <<seen, now, storeVars, botVars, pollVars>>

Tick ==
    /\ now < MaxTime
    /\ now' = now + 1
    /\ UNCHANGED <<inbox, seen, nmsgs, storeVars, botVars, pollVars>>

\* a loop that never looks at the flag
LoopIterDeaf(io, f) ==
    /\ loopPc \in {"top", "sleep"}
    /\ LET nc == NextCall(Configured(load_accounts(io)), f)
       IN  /\ poll' = [poll EXCEPT !["loop"] = nc[1]]
           /\ todo' = [todo EXCEPT !["loop"] = nc[2]]
           /\ loopPc' = IF nc[1].pc = "idle" THEN "sleep" ELSE "busy"
    /\ UNCHANGED <<cache, notes, diag, running, storeVars, botVars, mailVars>>

(***************************************************************************)
(* email_checker_loop: the `while running` test and one pass up to the     *)
(* first await of the first check_account_emails (or to the sleep).        *)
(***************************************************************************)
LoopIter(io, f) ==
    /\ loopPc \in {"top", "sleep"}
    /\ IF running
       THEN LET nc == NextCall(Configured(load_accounts(io)), f)
            IN  /\ poll' = [poll EXCEPT !["loop"] = nc[1]]
                /\ todo' = [todo EXCEPT !["loop"] = nc[2]]
                /\ loopPc' = IF nc[1].pc = "idle" THEN "sleep" ELSE "busy"
       ELSE /\ loopPc' = "stopped"
            /\ UNCHANGED <<poll, todo>>
    /\ UNCHANGED <<cache, notes, diag, running, storeVars, botVars, mailVars>>

\* signal_handler
Shutdown ==
    /\ running
    /\ running' = FALSE
    /\ UNCHANGED <<cache, notes, diag, poll, todo, loopPc, storeVars, botVars, mailVars>>

(***************************************************************************)
(* handle_text_message, intent "check_email": the operator-triggered poll. *)
(* param is parameters.get("account_id"): 0 when absent.                   *)
(***************************************************************************)
CheckEmailIntent(param, io, f) ==
    /\ ownerId \in DOMAIN fsm
    /\ fsm[ownerId].state = "None"
    /\ DictGet(fsm[ownerId].data, "custom_reply_id", NoLocalId) = NoLocalId
    /\ poll["manual"].pc = "idle"
    /\ LET accounts == load_accounts(io)
           list == IF param # 0
                   THEN (IF AcctKey(param) \in DOMAIN accounts THEN <<param>> ELSE <<>>)
                   ELSE Configured(accounts)
           nc == NextCall(list, f)
       IN  /\ poll' = [poll EXCEPT !["manual"] = nc[1]]
           /\ todo' = [todo EXCEPT !["manual"] = nc[2]]
    /\ UNCHANGED <<cache, notes, diag, loopPc, running, storeVars, botVars, mailVars>>

(***************************************************************************)
(* check_account_emails, from await to await.                              *)
(***************************************************************************)
\* await loop.run_in_executor(None, imap_connect)
ConnectDone(p, kind, text, f) ==
    /\ poll[p].pc = "connect"
    /\ IF kind = "ok"
       THEN /\ poll' = [poll EXCEPT ![p].pc = "search"]
            /\ UNCHANGED <<todo, loopPc, diag>>
       ELSE /\ diag' = PollDiagnostic(poll[p].acct, kind, text)
            /\ Return(p, f)
    /\ UNCHANGED <<cache, notes, running, storeVars, botVars, mailVars>>

\* await loop.run_in_executor(None, imap_search), email_ids[:10]
SearchDone(p, kind, text, f) ==
    /\ poll[p].pc = "search"
    /\ IF kind = "ok"
       THEN LET ids == imap_search(poll[p].acct)
            IN  /\ poll' = [poll EXCEPT ![p] =
                       IF ids = <<>> THEN [@ EXCEPT !.pc = "close"]
                       ELSE [@ EXCEPT !.pc = "fetch", !.ids = ids, !.msg = Head(ids)]]
                /\ UNCHANGED <<todo, loopPc, diag>>
       ELSE IF kind = "notok"
       THEN /\ poll' = [poll EXCEPT ![p].pc = "close"]
            /\ UNCHANGED <<todo, loopPc, diag>>
       ELSE /\ diag' = PollDiagnostic(poll[p].acct, kind, text)
            /\ Return(p, f)
    /\ UNCHANGED <<cache, notes, running, storeVars, botVars, mailVars>>

\* await loop.run_in_executor(None, imap_fetch), then parsing the message;
\* the call of summarize_email starts at time `now`
FetchDone(p, ok) ==
    /\ poll[p].pc = "fetch"
    /\ poll' = [poll EXCEPT ![p] =
           IF ok THEN [@ EXCEPT !.pc = "summarize", !.ts = now] ELSE Advance(p, @)]
    /\ UNCHANGED <<cache, notes, diag, todo, loopPc, running, storeVars, botVars, mailVars>>

\* await loop.run_in_executor(None, summarize_email, body[:2000]); timestamp_ms.
\* The collaborator call takes at least one millisecond.
SummarizeDone(p, ok) ==
    /\ poll[p].pc = "summarize"
    /\ now > poll[p].ts
    /\ poll' = [poll EXCEPT ![p].pc = "analyze", ![p].ts = now,
                            ![p].summary = summarize_email(ok)]
    /\ UNCHANGED <<cache, notes, diag, todo, loopPc, running, storeVars, botVars, mailVars>>

\* await loop.run_in_executor(None, analyze_email_priority_and_category, ...);
\* EMAIL_CACHE[local_id] = email_data (the returned list new_emails only feeds the
\* callers' log and answer texts and is not kept)
AnalyzeDone(p, ok, res) ==
    /\ poll[p].pc = "analyze"
    /\ LET r == poll[p]
           pdata == analyze_email_priority_and_category(ok, res)
       IN  /\ cache' = DictSet(cache, LocalId(r.acct, r.ts),
                               EmailData(r.acct, r.msg, r.ts, r.summary, pdata))
           /\ poll' = [poll EXCEPT ![p].pc = "mark", ![p].pdata = pdata]
    /\ UNCHANGED <<notes, diag, todo, loopPc, running, storeVars, botVars, mailVars>>

\* await loop.run_in_executor(None, mark_as_read); on success the notification
\* is asked for: await telegram_notify_func(message, local_id)
MarkDone(p, ok) ==
    /\ poll[p].pc = "mark"
    /\ LET r == poll[p]
       IN  IF ok
           THEN /\ seen' = seen \cup {r.msg}
                /\ notes' = notes (+) SetToBag({Notification(LocalId(r.acct, r.ts), r.pdata)})
                /\ poll' = [poll EXCEPT ![p].pc = "notify"]
           ELSE /\ poll' = [poll EXCEPT ![p] = Advance(p, @)]
                /\ UNCHANGED <<seen, notes>>
    /\ UNCHANGED <<cache, diag, todo, loopPc, running, storeVars, botVars, inbox, nmsgs, now>>

\* send_notification returns (a delivery failure is logged and swallowed)
NotifyDone(p) ==
    /\ poll[p].pc = "notify"
    /\ poll' = [poll EXCEPT ![p] = Advance(p, @)]
    /\ UNCHANGED <<cache, notes, diag, todo, loopPc, running, storeVars, botVars, mailVars>>

\* await loop.run_in_executor(None, imap_close); return new_emails
CloseDone(p, kind, text, f) ==
    /\ poll[p].pc = "close"
    /\ diag' = IF kind = "ok" THEN diag ELSE PollDiagnostic(poll[p].acct, kind, text)
    /\ Return(p, f)
    /\ UNCHANGED <<cache, notes, running, storeVars, botVars, mailVars>>

(***************************************************************************)
(* The bot: owner check, SMTP submit and the reply entry points.           *)
(***************************************************************************)
Senders == {7, 9}

\* int(owner_id) of get_owner_id; a text outside the domain is not a number
IntOf == ("7" :> 7) @@ ("587" :> 587) @@ ("0" :> 0) @@ ("70000" :> 70000)

\* env is the value of OWNER_TELEGRAM_ID when telegram_bot is imported
get_owner_id(env) ==
    IF env = "" THEN 0
    ELSE IF env \in DOMAIN IntOf THEN IntOf[env] ELSE 0

\* does check_owner let the handler run for this sender
check_owner(sender) == ownerId = 0 \/ sender = ownerId

\* state.clear()
Session0 == [state |-> "None", data |-> EmptyDict]

\* the event-loop thread is in no synchronous call
NoCall == [call |-> "none", sender |-> 0, local_id |-> <<>>, draft |-> ""]

\* what one handler leaves behind
Effect(sender, sess, subs, nts, store, ans) ==
    /\ calling' = NoCall
    /\ fsm' = [fsm EXCEPT ![sender] = sess]
    /\ submits' = subs
    /\ notes' = nts
    /\ db' = store[1]
    /\ file' = store[2]
    /\ answer' = ans
    /\ UNCHANGED <<pgConfigured, envJson, mailVars, cache, diag, poll, todo, loopPc,
                   running, ownerId, oauthConfigured>>

\* the handler answers and changes nothing else
Keep(sender, ans) == Effect(sender, fsm[sender], submits, notes, <<db, file>>, ans)

\* the wrapper of check_owner refuses the sender
Denied(sender) == Keep(sender, "denied")

RECURSIVE AfterLast(_, _)
\* s.split(sep)[-1]
AfterLast(s, sep) ==
    IF s = <<>> THEN <<>>
    ELSE IF sep \in {Tail(s)[i] : i \in 1..Len(Tail(s))} THEN AfterLast(Tail(s), sep)
    ELSE IF Head(s) = sep THEN Tail(s) ELSE s

RECURSIVE BeforeFirst(_, _)
\* s.split(sep)[0]
BeforeFirst(s, sep) ==
    IF s = <<>> \/ Head(s) = sep THEN <<>>
    ELSE <<Head(s)>> \o BeforeFirst(Tail(s), sep)

\* a recipient that is the From header as it stands
ToEmailRaw(from_field) == from_field

\* the recipient taken from the From header
ToEmail(from_field) ==
    LET toks == {from_field[i] : i \in 1..Len(from_field)}
    IN  IF "<" \in toks /\ ">" \in toks
        THEN BeforeFirst(AfterLast(from_field, "<"), ">")
        ELSE from_field

ReSubject(subject) == <<"Re:">> \o subject

PolishError == <<"polish-error">>

\* ai_client.polish_reply: the polished text, or the error text when the call fails
polish_reply(draft, ok) == IF ok THEN <<"polished", draft>> ELSE PolishError

SmtpOutcomes == {"ok", "auth", "error"}

\* the diagnostic send_email_smtp passes to telegram_notify_func
ErrorNote == [local_id |-> NoLocalId, compact |-> FALSE, button |-> FALSE]

\* a submission that reports every failure as the generic error
send_email_smtp_generic(a, to, subject, body, io, smtp) ==
    LET account == get_account(a, io)
    IN  IF account = EmptyDict
        THEN [submit |-> FALSE, ok |-> FALSE, msg |-> "no_account"]
        ELSE IF ~(/\ TruthyField(account, "smtp_host")
                  /\ TruthyField(account, "imap_user")
                  /\ TruthyField(account, "imap_pass"))
        THEN [submit |-> FALSE, ok |-> FALSE, msg |-> "incomplete"]
        ELSE [submit |-> TRUE, ok |-> smtp = "ok",
              msg |-> IF smtp = "ok" THEN "ok" ELSE "error",
              mail |-> [account |-> a, from |-> account.imap_user, to |-> to,
                        subject |-> subject, body |-> body]]

\* f"Ошибка при отправке: {msg}", the answer of the reply entry points to a
\* failed submission
SendFailed(msg) ==
    IF msg = "auth" THEN "send_failed: auth"
    ELSE IF msg = "error" THEN "send_failed: error"
    ELSE IF msg = "no_account" THEN "send_failed: no_account"
    ELSE "send_failed: incomplete"

\* email_client.send_email_smtp: is smtp_send called, with what, and the result
send_email_smtp(a, to, subject, body, io, smtp) ==
    LET account == get_account(a, io)
    IN  IF account = EmptyDict
        THEN [submit |-> FALSE, ok |-> FALSE, msg |-> "no_account"]
        ELSE IF ~(/\ TruthyField(account, "smtp_host")
                  /\ TruthyField(account, "imap_user")
                  /\ TruthyField(account, "imap_pass"))
        THEN [submit |-> FALSE, ok |-> FALSE, msg |-> "incomplete"]
        ELSE [submit |-> TRUE, ok |-> smtp = "ok", msg |-> smtp,
              mail |-> [account |-> a, from |-> account.imap_user, to |-> to,
                        subject |-> subject, body |-> body]]

\* a reply that always goes out through account 1
SendReplyFirstAccount(sender, sess, email_data, draft, polishOk, io, smtp) ==
    LET r == send_email_smtp(1, ToEmail(email_data.from),
                             ReSubject(email_data.subject),
                             polish_reply(draft, polishOk), io, smtp)
    IN  /\ r.submit => Len(submits) < MaxSubmits
        /\ Effect(sender, sess,
                  IF r.submit THEN Append(submits, r.mail) ELSE submits,
                  IF r.submit /\ ~r.ok THEN notes (+) SetToBag({ErrorNote}) ELSE notes,
                  <<db, file>>,
                  IF r.ok THEN "sent" ELSE SendFailed(r.msg))

\* polish the draft, submit it and answer: the common tail of the reply entry points
SendReply(sender, sess, email_data, draft, polishOk, io, smtp) ==
    LET r == send_email_smtp(email_data.account_id, ToEmail(email_data.from),
                             ReSubject(email_data.subject),
                             polish_reply(draft, polishOk), io, smtp)
    IN  /\ r.submit => Len(submits) < MaxSubmits
        /\ Effect(sender, sess,
                  IF r.submit THEN Append(submits, r.mail) ELSE submits,
                  IF r.submit /\ ~r.ok THEN notes (+) SetToBag({ErrorNote}) ELSE notes,
                  <<db, file>>,
                  IF r.ok THEN "sent" ELSE SendFailed(r.msg))

\* a lookup that answers with a message for every id
get_email_from_cache_any(local_id) ==
    DictGet(cache, local_id, EmailData(1, 1, 1, "", EmptyDict))

\* email_client.get_email_from_cache: EMAIL_CACHE.get(local_id)
get_email_from_cache(local_id) == DictGet(cache, local_id, EmptyDict)

\* handle_reply: /reply <ID> <text>; an empty draft stands for a command with
\* fewer than three parts
ReplyCommand(sender, local_id, draft, polishOk, io, smtp) ==
    IF ~check_owner(sender) THEN Denied(sender)
    ELSE IF draft = "" THEN Keep(sender, "usage")
    ELSE IF get_email_from_cache(local_id) = EmptyDict THEN Keep(sender, "not_found")
    ELSE SendReply(sender, fsm[sender], get_email_from_cache(local_id), draft,
                   polishOk, io, smtp)

\* the text suggested as a reply to the message cached under local_id
SuggestionFor(local_id) ==
    IF local_id = LocalId(1, 1) THEN "suggestion for 1-1"
    ELSE IF local_id = LocalId(2, 2) THEN "suggestion for 2-2"
    ELSE "suggestion"

\* suggest_reply_options, or the fallback of the handler when it raises
suggest_reply_options(local_id, ok) ==
    IF ok THEN [suggestions |-> <<SuggestionFor(local_id)>>, context |-> "context"]
    ELSE [suggestions |-> <<>>, context |-> "failed"]

\* handle_callback, "quick_reply:<id>"
QuickReplyCallback(sender, local_id, ok) ==
    IF ~check_owner(sender) THEN Denied(sender)
    ELSE IF get_email_from_cache(local_id) = EmptyDict THEN Keep(sender, "not_found")
    ELSE Effect(sender,
                [fsm[sender] EXCEPT !.data =
                    DictSet(DictSet(@, "reply_options", suggest_reply_options(local_id, ok)),
                            "reply_local_id", local_id)],
                submits, notes, <<db, file>>, "options")

\* handle_callback, "use_reply:<id>:<n>"
UseReplyCallback(sender, local_id, option_num, polishOk, io, smtp) ==
    LET reply_options == DictGet(fsm[sender].data, "reply_options", EmptyDict)
        suggestions == DictGet(reply_options, "suggestions", <<>>)
    IN  IF ~check_owner(sender) THEN Denied(sender)
        ELSE IF get_email_from_cache(local_id) = EmptyDict THEN Keep(sender, "not_found")
        ELSE IF option_num <= Len(suggestions)
        THEN SendReply(sender, fsm[sender], get_email_from_cache(local_id),
                       suggestions[option_num], polishOk, io, smtp)
        ELSE Keep(sender, "no_option")

\* handle_callback, "custom_reply:<id>"
CustomReplyCallback(sender, local_id) ==
    IF ~check_owner(sender) THEN Denied(sender)
    ELSE IF get_email_from_cache(local_id) = EmptyDict THEN Keep(sender, "not_found")
    ELSE Effect(sender,
                [fsm[sender] EXCEPT !.data = DictSet(@, "custom_reply_id", local_id)],
                submits, notes, <<db, file>>, "ask_reply")

\* handle_callback, "setup:<account>:<provider>"
SetupCallback(sender, account_id, provider) ==
    IF ~check_owner(sender) THEN Denied(sender)
    ELSE IF provider \notin {"gmail", "custom"} THEN Keep(sender, "none")
    ELSE Effect(sender,
                [state |-> IF provider = "gmail" THEN "gmail_user" ELSE "custom_imap_host",
                 data |-> DictSet(DictSet(fsm[sender].data, "account_id", account_id),
                                  "provider", provider)],
                submits, notes, <<db, file>>,
                IF provider = "gmail" THEN "ask_email" ELSE "ask_imap_host")

\* /start, /help, /emails, /thread, /search, /stats, /status and the menu callbacks
\* only read and answer
ReadOnlyUpdate(sender) ==
    IF ~check_owner(sender) THEN Denied(sender) ELSE Keep(sender, "info")

(***************************************************************************)
(* handle_text_message: custom reply, onboarding FSM, intent branch.       *)
(***************************************************************************)
\* text.strip().replace(" ", "").replace("-", "")
StripPassword(text) == IF text = "ab cd-ef" THEN "abcdef" ELSE text

\* an address check that lets every text through
HasAtAny(text) == TRUE

\* "@" in email
HasAt(text) == text \in {"me@gmail.com"}

\* text.startswith('/')
IsCommand(text) == text \in {"/start"}

\* code.lower()
Lower(text) == IF text = "SKIP" THEN "skip" ELSE text

\* "gmail.com" in imap_host.lower()
IsGmailHost(host) == host \in {"imap.gmail.com"}

\* a connectivity test that reports every failure as its plain error text
test_imap_connection_plain(host, kind, text) ==
    IF kind = "ok" THEN <<TRUE, "">> ELSE <<FALSE, "other">>

\* email_client.test_imap_connection: kind is how the IMAP login ended, text says
\* which phrases the text of an imaplib.IMAP4.error holds
test_imap_connection(host, kind, text) ==
    IF kind = "ok" THEN <<TRUE, "">>
    ELSE IF kind = "imap"
    THEN IF text.asp THEN <<FALSE, "app_password_required">>
         ELSE IF text.auth \/ text.failure
         THEN IF IsGmailHost(host) THEN <<FALSE, "app_password_required">>
              ELSE <<FALSE, "authentication_error">>
         ELSE <<FALSE, "other">>
    ELSE <<FALSE, "other">>

OAuthAccount(user, tokens) ==
    [imap_host |-> "imap.gmail.com", imap_user |-> user, smtp_host |-> "smtp.gmail.com",
     smtp_port |-> GmailSmtpPort, auth_type |-> "oauth2", oauth_tokens |-> tokens]

\* state gmail_user: the text is the e-mail address
GmailUser(sender, text, x) ==
    LET sess == fsm[sender]
        data == DictSet(sess.data, "imap_user", text)
    IN  IF ~HasAt(text) THEN Keep(sender, "bad_email")
        ELSE IF DictGet(data, "account_id", 0) = 0
        THEN Effect(sender, Session0, submits, notes, <<db, file>>, "no_account_id")
        ELSE IF oauthConfigured /\ x.urlOk
        THEN Effect(sender, [state |-> "gmail_oauth_code", data |-> data],
                    submits, notes, <<db, file>>, "oauth_link")
        ELSE Effect(sender, [state |-> "gmail_pass", data |-> data],
                    submits, notes, <<db, file>>, "ask_password")

\* state gmail_oauth_code: the text is the authorisation code, or "skip"
GmailOauthCode(sender, text, x) ==
    LET sess == fsm[sender]
    IN  IF Lower(text) = "skip"
        THEN Effect(sender, [sess EXCEPT !.state = "gmail_pass"],
                    submits, notes, <<db, file>>, "ask_password")
        ELSE IF ~x.tokensOk THEN Keep(sender, "no_tokens")
        ELSE Effect(sender, Session0, submits, notes,
                    save_account(sess.data["account_id"],
                                 OAuthAccount(sess.data["imap_user"], "tokens"),
                                 x.ioLoad, x.ioSave),
                    "configured")

\* state gmail_pass: the text is the password; the handler tests it once
GmailPass(sender, text, x) ==
    LET sess == fsm[sender]
        password == StripPassword(text)
        needs_app_password == DictGet(sess.data, "needs_app_password", FALSE)
        r == test_imap_connection("imap.gmail.com", x.kind, x.text)
        flagged == [sess EXCEPT !.data = DictSet(@, "needs_app_password", TRUE)]
    IN  IF ~needs_app_password /\ ~r[1] /\ r[2] = "app_password_required"
        THEN Effect(sender, flagged, submits, notes, <<db, file>>, "need_app_password")
        ELSE IF ~needs_app_password /\ ~r[1] /\ r[2] = "authentication_error"
        THEN Effect(sender, flagged, submits, notes, <<db, file>>, "password_rejected")
        ELSE IF ~needs_app_password /\ ~r[1] THEN Keep(sender, "connect_error")
        ELSE IF needs_app_password /\ ~r[1]
        THEN IF r[2] \in {"app_password_required", "authentication_error"}
             THEN Keep(sender, "app_password_rejected")
             ELSE Keep(sender, "connect_error")
        ELSE Effect(sender, Session0, submits, notes,
                    save_account(sess.data["account_id"],
                                 PasswordAccount("imap.gmail.com", sess.data["imap_user"],
                                                 password, "smtp.gmail.com", GmailSmtpPort),
                                 x.ioLoad, x.ioSave),
                    "configured")


\* a password prompt that moves on whatever the connectivity test says
CustomImapPassUntested(sender, text, x) ==
    Effect(sender,
           [state |-> "custom_smtp_host", data |-> DictSet(fsm[sender].data, "imap_pass", text)],
           submits, notes, <<db, file>>, "ask_smtp_host")

\* state custom_imap_pass: the text is the IMAP password, tested at once
CustomImapPass(sender, text, x) ==
    LET sess == fsm[sender]
        data == DictSet(sess.data, "imap_pass", text)
        r == test_imap_connection(sess.data["imap_host"], x.kind, x.text)
    IN  IF ~r[1]
        THEN Effect(sender, [sess EXCEPT !.data = data], submits, notes, <<db, file>>,
                    "imap_error")
        ELSE Effect(sender, [state |-> "custom_smtp_host", data |-> data],
                    submits, notes, <<db, file>>, "ask_smtp_host")

\* state custom_smtp_port: the text is the port number
CustomSmtpPort(sender, text, x) ==
    LET sess == fsm[sender]
        data == sess.data
    IN  IF text \notin DOMAIN IntOf THEN Keep(sender, "bad_port")
        ELSE IF IntOf[text] < 1 \/ IntOf[text] > 65535 THEN Keep(sender, "bad_port")
        ELSE Effect(sender, Session0, submits, notes,
                    save_account(data["account_id"],
                                 PasswordAccount(data["imap_host"], data["imap_user"],
                                                 data["imap_pass"], data["smtp_host"],
                                                 IntOf[text]),
                                 x.ioLoad, x.ioSave),
                    "configured")

\* the next prompt of the custom set-up: store the text under key and move on
CustomField(sender, text, key, next, ans) ==
    Effect(sender, [state |-> next, data |-> DictSet(fsm[sender].data, key, text)],
           submits, notes, <<db, file>>, ans)

\* handle_text_message for a text of this sender; x holds the outcomes of the
\* external calls.  The intents other than check_email only answer.
handle_text_message(sender, text, x) ==
    LET sess == fsm[sender]
        custom_reply_id == DictGet(sess.data, "custom_reply_id", NoLocalId)
        cleared == [sess EXCEPT !.data = DictSet(@, "custom_reply_id", NoLocalId)]
    IN  IF sender # ownerId THEN Keep(sender, "ignored")
        ELSE IF IsCommand(text) THEN Keep(sender, "ignored")
        ELSE IF custom_reply_id # NoLocalId
        THEN IF get_email_from_cache(custom_reply_id) = EmptyDict
             THEN Effect(sender, cleared, submits, notes, <<db, file>>, "not_found")
             ELSE SendReply(sender, cleared, get_email_from_cache(custom_reply_id), text,
                            x.polishOk, x.io, x.smtp)
        ELSE IF sess.state = "gmail_user" THEN GmailUser(sender, text, x)
        ELSE IF sess.state = "gmail_oauth_code" THEN GmailOauthCode(sender, text, x)
        ELSE IF sess.state = "gmail_pass" THEN GmailPass(sender, text, x)
        ELSE IF sess.state = "custom_imap_host"
        THEN CustomField(sender, text, "imap_host", "custom_imap_user", "ask_imap_user")
        ELSE IF sess.state = "custom_imap_user"
        THEN CustomField(sender, text, "imap_user", "custom_imap_pass", "ask_imap_pass")
        ELSE IF sess.state = "custom_imap_pass" THEN CustomImapPass(sender, text, x)
        ELSE IF sess.state = "custom_smtp_host"
        THEN CustomField(sender, text, "smtp_host", "custom_smtp_port", "ask_smtp_port")
        ELSE IF sess.state = "custom_smtp_port" THEN CustomSmtpPort(sender, text, x)
        ELSE Keep(sender, "ai")

\* handle_voice_message: a voice message is transcribed and handed to
\* handle_text_message
VoiceMessage(sender, ok, text, x) ==
    IF ~check_owner(sender) THEN Denied(sender)
    ELSE IF ~ok THEN Keep(sender, "voice_failed")
    ELSE handle_text_message(sender, text, x)

\* a text message that is no command: the first handler registered without a
\* filter is handle_voice_message, which returns when message.voice is empty
TextMessage(sender) ==
    IF ~check_owner(sender) THEN Denied(sender) ELSE Keep(sender, "ignored")

(***************************************************************************)
(* The poller with account 1 set up (a password account kept in            *)
(* PostgreSQL), polled by the scheduling loop and on the operator's        *)
(* request.                                                                *)
(***************************************************************************)
NoText == [asp |-> FALSE, auth |-> FALSE, failure |-> FALSE]
F0 == [a \in Accounts |-> IO0]

TextsOf(kind) == IF kind = "imap" THEN ImapErrors ELSE {NoText}
IOFail == [pg |-> TRUE, dbok |-> FALSE, fok |-> FALSE]
PollIOs == {IO0, IOFail}
OutcomesOf(kind) == IF kind \in {"ok", "notok"} THEN {F0} ELSE [Accounts -> PollIOs]

SomeAccount ==
    PasswordAccount("imap.example.com", "me@example.com", "secret",
                    "smtp.example.com", GmailSmtpPort)

\* account 1 is set up, account 2 is not
InitStoreOne ==
    /\ pgConfigured = TRUE
    /\ db = [k \in {"1"} |-> SomeAccount]
    /\ envJson = [state |-> "unset", accounts |-> EmptyDict]
    /\ file = [exists |-> FALSE, accounts |-> EmptyDict]

InitMail ==
    /\ inbox = [a \in Accounts |-> <<>>]
    /\ seen = {}
    /\ nmsgs = 0
    /\ now = 0

InitPoller ==
    /\ cache = EmptyDict
    /\ notes = EmptyBag
    /\ diag = <<>>
    /\ poll = [p \in Procs |-> Idle]
    /\ todo = [p \in Procs |-> <<>>]
    /\ loopPc = "top"
    /\ running = TRUE

\* the bot after init_bot, with the owner's id read from the environment
InitBotVars(env) ==
    /\ ownerId = get_owner_id(env)
    /\ fsm = [s \in Senders |-> Session0]
    /\ submits = <<>>
    /\ answer = "none"
    /\ calling = NoCall

InitPoll ==
    /\ InitStoreOne /\ InitMail /\ InitPoller
    /\ InitBotVars("7") /\ oauthConfigured = FALSE

\* one step of check_account_emails for caller p; K, S and A are the outcomes drawn
\* for the transport calls, the summarisation and the priority/category analysis
PollStep(p, K, S, A) ==
    \/ \E kind \in K \cap {"ok", "imap", "exc"} : \E text \in TextsOf(kind) :
           \E f \in OutcomesOf(kind) : ConnectDone(p, kind, text, f)
    \/ \E kind \in K : \E text \in TextsOf(kind) :
           \E f \in OutcomesOf(kind) : SearchDone(p, kind, text, f)
    \/ \E ok \in BOOLEAN : FetchDone(p, ok)
    \/ \E ok \in S : SummarizeDone(p, ok)
    \/ \E an \in A : AnalyzeDone(p, an.ok, an.res)
    \/ \E ok \in BOOLEAN : MarkDone(p, ok)
    \/ NotifyDone(p)
    \/ \E kind \in K \cap {"ok", "imap", "exc"} : \E text \in TextsOf(kind) :
           \E f \in [Accounts -> PollIOs] : CloseDone(p, kind, text, f)

AnalysisOk == [ok |-> TRUE, res |-> [priority |-> "high", category |-> "important", reason |-> "why"]]

\* the scheduled and the operator-triggered poll of account 1 side by side; the
\* transport connects, the collaborators answer
NextPoll ==
    \/ \E a \in {a \in Accounts : AcctKey(a) \in DOMAIN db} : Deliver(a)
    \/ Tick
    \/ \E io \in PollIOs : \E f \in [Accounts -> PollIOs] : LoopIter(io, f)
    \/ \E param \in {0} \cup Accounts : \E io \in PollIOs : \E f \in [Accounts -> PollIOs] :
           CheckEmailIntent(param, io, f)
    \/ \E p \in Procs : PollStep(p, {"ok"}, {TRUE}, {AnalysisOk})

SpecPoll == InitPoll /\ [][NextPoll]_vars

AnalysisNewsletter == [ok |-> TRUE, res |-> [priority |-> "low", category |-> "newsletter", reason |-> "why"]]
AnalysisFailed == [ok |-> FALSE, res |-> AnalysisDefault]

\* the scheduled poll alone, with collaborators that may fail
NextClassify ==
    \/ \E a \in {a \in Accounts : AcctKey(a) \in DOMAIN db} : Deliver(a)
    \/ Tick
    \/ \E io \in PollIOs : \E f \in [Accounts -> PollIOs] : LoopIter(io, f)
    \/ PollStep("loop", {"ok"}, BOOLEAN, {AnalysisOk, AnalysisNewsletter, AnalysisFailed})

SpecClassify == InitPoll /\ [][NextClassify]_vars

(***************************************************************************)
(* The Credential Store on its own: save_account under every outcome of    *)
(* the storage calls.                                                      *)
(***************************************************************************)
OtherAccount ==
    PasswordAccount("imap.y.com", "bob@y.com", "pw2", "smtp.y.com", 465)

AccountDatas == {SomeAccount, OtherAccount}

\* storage.save_account: one read-modify-write of the whole account map
SaveAccount(a, data, ioLoad, ioSave) ==
    /\ db' = save_account(a, data, ioLoad, ioSave)[1]
    /\ file' = save_account(a, data, ioLoad, ioSave)[2]
    /\ UNCHANGED <<pgConfigured, envJson, mailVars, pollVars, botVars>>

InitStore ==
    /\ pgConfigured \in BOOLEAN
    /\ db = EmptyDict
    /\ envJson \in {[state |-> "unset", accounts |-> EmptyDict],
                    [state |-> "bad", accounts |-> EmptyDict],
                    [state |-> "map", accounts |-> [k \in {"1"} |-> SomeAccount]]}
    /\ file = [exists |-> FALSE, accounts |-> EmptyDict]
    /\ InitMail
    /\ InitPoller
    /\ InitBotVars("7") /\ oauthConfigured = FALSE

NextStore ==
    \E a \in Accounts : \E data \in AccountDatas \cup {EmptyDict} :
        \E ioLoad \in IOs : \E ioSave \in IOs : SaveAccount(a, data, ioLoad, ioSave)

SpecStore == InitStore /\ [][NextStore]_vars

\* what the store holds: the account map a read with no storage failure returns
StoredAccounts == load_accounts(IO0)

\* C4: save_account(a, data) never changes or removes the stored record of an
\* account other than a, also when the load step fails or reads another backing.
C4_SaveKeepsOtherAccounts ==
    [][\A a \in Accounts : \A data \in AccountDatas \cup {EmptyDict} :
         \A ioLoad \in IOs : \A ioSave \in IOs :
            SaveAccount(a, data, ioLoad, ioSave)
            => \A b \in DOMAIN StoredAccounts \ {AcctKey(a)} :
                  /\ b \in DOMAIN StoredAccounts'
                  /\ StoredAccounts'[b] = StoredAccounts[b]]_vars

(***************************************************************************)
(* The bot on its own: the updates of two senders, with one message in     *)
(* the cache as a finished poll of account 1 leaves it.                    *)
(***************************************************************************)
OwnerEnvs == {"", "junk", "7"}

LocalIds == {LocalId(1, 1), LocalId(1, 2)}

AuthText == [asp |-> FALSE, auth |-> TRUE, failure |-> FALSE]

\* every external call of a text message works
X0 ==
    [polishOk |-> TRUE, smtp |-> "ok", io |-> IO0, kind |-> "ok", text |-> NoText,
     urlOk |-> TRUE, tokensOk |-> TRUE, ioLoad |-> IO0, ioSave |-> IO0]

\* PostgreSQL does not answer while the account is saved; the file can be written
IOPgDown == [pg |-> FALSE, dbok |-> TRUE, fok |-> TRUE]

XPgDown == [X0 EXCEPT !.ioSave = IOPgDown]

\* the outcomes of polishing and of the SMTP session
ReplyInputs ==
    {[X0 EXCEPT !.polishOk = p, !.smtp = m] : p \in BOOLEAN, m \in SmtpOutcomes}

\* the outcomes of the calls the onboarding makes in each state
SetupInputs(state) ==
    CASE state = "gmail_user" -> {[X0 EXCEPT !.urlOk = b] : b \in BOOLEAN}
      [] state = "gmail_oauth_code" -> {[X0 EXCEPT !.tokensOk = b] : b \in BOOLEAN}
      [] state \in {"gmail_pass", "custom_imap_pass"} ->
            {X0, [X0 EXCEPT !.kind = "exc"], [X0 EXCEPT !.kind = "imap"],
             [X0 EXCEPT !.kind = "imap", !.text = AuthText]}
      [] OTHER -> {X0}

\* the outcomes of the calls of the states that save the account: the token
\* exchange, and the storage while save_account runs
SaveInputs(state) ==
    CASE state = "gmail_user" -> {[X0 EXCEPT !.urlOk = b] : b \in BOOLEAN}
      [] state = "gmail_oauth_code" -> {X0, [X0 EXCEPT !.tokensOk = FALSE], XPgDown}
      [] state \in {"gmail_pass", "custom_smtp_port"} -> {X0, XPgDown}
      [] OTHER -> {X0}

\* what the operator types at each prompt
PromptTexts(state) ==
    CASE state = "gmail_user" -> {"me@gmail.com", "nonsense"}
      [] state = "gmail_oauth_code" -> {"SKIP", "4/0Ae"}
      [] state = "gmail_pass" -> {"ab cd-ef"}
      [] state = "custom_imap_host" -> {"imap.x.com"}
      [] state = "custom_imap_user" -> {"me@x.com"}
      [] state = "custom_imap_pass" -> {"secret"}
      [] state = "custom_smtp_host" -> {"smtp.x.com"}
      [] state = "custom_smtp_port" -> {"587", "0", "70000", "nonsense"}
      [] OTHER -> {"hi", "/start"}

InitCached ==
    /\ inbox = [a \in Accounts |-> IF a = 1 THEN <<1>> ELSE <<>>]
    /\ seen = {1}
    /\ nmsgs = 1
    /\ now = 1
    /\ cache = [l \in {LocalId(1, 1)} |-> EmailData(1, 1, 1, summarize_email(TRUE), AnalysisOk.res)]
    /\ notes = SetToBag({Notification(LocalId(1, 1), AnalysisOk.res)})
    /\ diag = <<>>
    /\ poll = [p \in Procs |-> Idle]
    /\ todo = [p \in Procs |-> <<>>]
    /\ loopPc = "sleep"
    /\ running = TRUE

\* the reply entry points of the owner and of a stranger
InitBot ==
    /\ InitStoreOne
    /\ InitCached
    /\ InitBotVars("7")
    /\ oauthConfigured = FALSE

\* one update of this sender; P and M are the outcomes drawn for polishing and
\* for the SMTP session
BotStep(sender, P, M) ==
    \/ \E local_id \in LocalIds : \E draft \in {"", "hi"} : \E polishOk \in P :
           \E smtp \in M : ReplyCommand(sender, local_id, draft, polishOk, IO0, smtp)
    \/ \E local_id \in LocalIds : \E ok \in BOOLEAN :
           QuickReplyCallback(sender, local_id, ok)
    \/ \E local_id \in LocalIds : \E n \in 1..2 : \E polishOk \in P :
           \E smtp \in M : UseReplyCallback(sender, local_id, n, polishOk, IO0, smtp)
    \/ \E local_id \in LocalIds : CustomReplyCallback(sender, local_id)
    \/ ReadOnlyUpdate(sender)
    \/ TextMessage(sender)
    \/ \E ok \in BOOLEAN : \E text \in {"hi", "/start"} :
           \E x \in {y \in ReplyInputs : y.polishOk \in P /\ y.smtp \in M} :
               VoiceMessage(sender, ok, text, x)

BotUpdate(sender) == BotStep(sender, BOOLEAN, SmtpOutcomes)

NextBot == \E sender \in Senders : BotUpdate(sender)

SpecBot == InitBot /\ [][NextBot]_vars

\* the same entry points under every owner configuration, with collaborators and
\* transport that work
InitOwner ==
    /\ InitStoreOne
    /\ InitCached
    /\ \E env \in OwnerEnvs : InitBotVars(env)
    /\ oauthConfigured = FALSE

OwnerUpdate(sender) ==
    \/ BotStep(sender, {TRUE}, {"ok"})
    \/ \E a \in Accounts : \E provider \in {"gmail", "custom"} :
           SetupCallback(sender, a, provider)

NextOwner == \E sender \in Senders : OwnerUpdate(sender)

SpecOwner == InitOwner /\ [][NextOwner]_vars

\* the onboarding of the owner
InitSetup ==
    /\ InitStoreOne
    /\ InitCached
    /\ InitBotVars("7")
    /\ oauthConfigured \in BOOLEAN

SetupUpdate(sender) ==
    \/ \E a \in Accounts : \E provider \in {"gmail", "custom"} :
           SetupCallback(sender, a, provider)
    \/ ReadOnlyUpdate(sender)
    \/ TextMessage(sender)
    \/ \E ok \in BOOLEAN : \E text \in PromptTexts(fsm[sender].state) :
           \E x \in SetupInputs(fsm[sender].state) : VoiceMessage(sender, ok, text, x)

NextSetup == \E sender \in Senders : SetupUpdate(sender)

SpecSetup == InitSetup /\ [][NextSetup]_vars

\* the same onboarding where PostgreSQL may be down while the account is saved
FinishUpdate(sender) ==
    \/ \E a \in Accounts : \E provider \in {"gmail", "custom"} :
           SetupCallback(sender, a, provider)
    \/ \E text \in PromptTexts(fsm[sender].state) :
           \E x \in SaveInputs(fsm[sender].state) : VoiceMessage(sender, TRUE, text, x)

NextFinish == \E sender \in Senders : FinishUpdate(sender)

SpecFinish == InitSetup /\ [][NextFinish]_vars

(***************************************************************************)
(* Properties of the poller.                                               *)
(***************************************************************************)
\* the number of notifications asked for local id l
NoteCount(l) ==
    LET S == {n \in BagToSet(notes) : n.local_id = l}
    IN  BagCardinality([n \in S |-> notes[n]])

\* a caller is between the cache insertion under l and the end of its mark-seen call
Marking(l) ==
    \E p \in Procs : poll[p].pc = "mark" /\ LocalId(poll[p].acct, poll[p].ts) = l

\* C1: a message is marked seen only after it was classified and cached: in no
\* reachable state is a message marked seen while absent from the cache.
C1_SeenOnlyIfCached ==
    \A m \in seen : \E l \in DOMAIN cache : cache[l].original_msg = m

\* C2: for every message inserted into EMAIL_CACHE exactly one notification is
\* attempted for its local id, never zero (also when mark-seen fails) and never more.
C2_ExactlyOneNotification ==
    \A l \in DOMAIN cache : ~Marking(l) => NoteCount(l) = 1

\* C7: when the classification collaborator fails for a fetched message, the message
\* is still cached and notified, with priority medium, category work, an empty
\* rationale and a summary carrying the error text.
C7_FailedClassificationStillNotified ==
    /\ \A p \in Procs :
          (poll[p].pc = "mark" /\ poll[p].summary = SummaryError
                /\ poll[p].pdata = AnalysisDefault)
          => LocalId(poll[p].acct, poll[p].ts) \in DOMAIN cache
    /\ \A l \in DOMAIN cache :
          (cache[l].summary = SummaryError /\ cache[l].priority_reason = "")
          => /\ cache[l].priority = "medium"
             /\ cache[l].category = "work"
             /\ (~Marking(l) => NoteCount(l) >= 1)

\* C9: two executions of check_account_emails for the same account never overlap.
C9_NoOverlappingPolls ==
    ~(/\ poll["loop"].pc # "idle"
      /\ poll["manual"].pc # "idle"
      /\ poll["loop"].acct = poll["manual"].acct)

\* C10: local ids are unique for the lifetime of the process, so a cache insertion
\* never overwrites an existing entry.
C10_InsertionNeverOverwrites ==
    [][\A l \in DOMAIN cache : cache'[l] = cache[l]]_vars

(***************************************************************************)
(* Properties of the bot.                                                  *)
(***************************************************************************)
\* the custom reply this sender's next text would answer
PendingReply(sender) == DictGet(fsm[sender].data, "custom_reply_id", NoLocalId)

NotFoundNoSubmit == answer' = "not_found" /\ submits' = submits

\* C3: for a local id that is not a key of the cache, /reply, a chosen suggested
\* reply and a free-text custom reply answer not-found and make no smtp_send call;
\* the id a free-text reply answers is never one that is absent from the cache.
C3_UnknownIdNotFound ==
    [][\A sender \in Senders : \A local_id \in LocalIds :
          (check_owner(sender) /\ local_id \notin DOMAIN cache) =>
            /\ \A polishOk \in BOOLEAN : \A smtp \in SmtpOutcomes :
                  ReplyCommand(sender, local_id, "hi", polishOk, IO0, smtp)
                  => NotFoundNoSubmit
            /\ \A n \in 1..2 : \A polishOk \in BOOLEAN : \A smtp \in SmtpOutcomes :
                  UseReplyCallback(sender, local_id, n, polishOk, IO0, smtp)
                  => NotFoundNoSubmit
            /\ CustomReplyCallback(sender, local_id)
                  => NotFoundNoSubmit /\ PendingReply(sender)' # local_id
            /\ \A text \in {"hi", "/start"} : \A x \in ReplyInputs :
                  (VoiceMessage(sender, TRUE, text, x) /\ PendingReply(sender) = local_id
                     /\ sender = ownerId /\ ~IsCommand(text))
                  => NotFoundNoSubmit]_vars

\* a reply entry point answered not-found for the id that is not cached
C3_Witness ==
    /\ answer = "not_found"
    /\ LocalId(1, 2) \notin DOMAIN cache
    /\ submits = <<>>

\* C5: input from a sender other than the configured owner has no side effect on
\* the cache, the Credential Store, the sessions and the mail transport, for every
\* value of the owner configuration.
C5_NonOwnerRejected ==
    [][\A sender \in Senders :
          (sender # ownerId /\ OwnerUpdate(sender))
          => UNCHANGED <<cache, storeVars, fsm, submits, notes>>]_vars

\* C6: when polishing fails during /reply, the reply is still submitted and its
\* body is the operator's draft.
C6_PolishFailureSendsDraft ==
    [][\A sender \in Senders : \A local_id \in LocalIds : \A smtp \in SmtpOutcomes :
          (/\ check_owner(sender)
           /\ local_id \in DOMAIN cache
           /\ ReplyCommand(sender, local_id, "hi", FALSE, IO0, smtp))
          => /\ Len(submits') = Len(submits) + 1
             /\ submits'[Len(submits')].body = <<"hi">>]_vars

\* the IMAP login was refused with an authentication-class error text
AuthFailure(x) == x.kind = "imap" /\ (x.text.asp \/ x.text.auth \/ x.text.failure)

NeedsAppPassword(sender) == DictGet(fsm[sender].data, "needs_app_password", FALSE)

\* C8: in state gmail_pass an authentication-class failure of the connectivity test
\* with the flag unset sets needs_app_password and changes nothing else; with the
\* flag set it changes neither flag nor state; in both cases nothing is saved and
\* the session stays in gmail_pass.
C8_GmailPasswordEscalation ==
    [][\A sender \in Senders : \A text \in PromptTexts("gmail_pass") :
         \A x \in SetupInputs("gmail_pass") :
          (/\ sender = ownerId
           /\ fsm[sender].state = "gmail_pass"
           /\ PendingReply(sender) = NoLocalId
           /\ AuthFailure(x)
           /\ VoiceMessage(sender, TRUE, text, x))
          => /\ UNCHANGED <<storeVars, submits>>
             /\ IF NeedsAppPassword(sender)
                THEN fsm' = fsm
                ELSE fsm' = [fsm EXCEPT ![sender].data =
                                 DictSet(@, "needs_app_password", TRUE)]]_vars

\* the second refusal: the flag is set and the App Password was refused as well
C8_Witness ==
    /\ fsm[7].state = "gmail_pass"
    /\ NeedsAppPassword(7)
    /\ answer = "app_password_rejected"

(***************************************************************************)
(* Further properties of the poller.                                       *)
(***************************************************************************)
\* C11: the notification of a cached message whose category is spam or newsletter
\* is compact and carries no reply button.
C11_BulkMailHasNoReplyButton ==
    \A n \in BagToSet(notes) :
        (/\ n.local_id \in DOMAIN cache
         /\ cache[n.local_id].category \in {"spam", "newsletter"})
        => n.compact /\ ~n.button

\* C12: every cached message is marked seen: once a caller is past the mark-seen
\* step of a message it cached, the message carries \Seen.
C12_CachedIsMarkedSeen ==
    \A l \in DOMAIN cache : ~Marking(l) => cache[l].original_msg \in seen

(***************************************************************************)
(* The storage functions called one at a time, with empty and non-empty    *)
(* arguments, under every storage outcome.                                 *)
(***************************************************************************)
\* a record whose values are all empty
AllEmptyAccount == PasswordAccount("", "", "", "", 0)

EmptyDatas == {EmptyDict, AllEmptyAccount}

AccountMaps ==
    {EmptyDict, [k \in {"1"} |-> SomeAccount], [k \in {"2"} |-> OtherAccount],
     [k \in {"1", "2"} |-> IF k = "1" THEN OtherAccount ELSE SomeAccount]}

\* storage.save_accounts called with a whole account map
SaveAccounts(accounts, io) ==
    /\ db' = save_accounts(accounts, io)[1]
    /\ file' = save_accounts(accounts, io)[2]
    /\ UNCHANGED <<pgConfigured, envJson, mailVars, pollVars, botVars>>

\* db_storage.save_accounts_to_db called with a whole account map; without
\* DATABASE_URL there is no connection and the call returns False
SaveAccountsToDb(accounts, io) ==
    /\ db' = IF pgConfigured THEN save_accounts_to_db(accounts, io)[2] ELSE db
    /\ UNCHANGED <<pgConfigured, envJson, file, mailVars, pollVars, botVars>>

NextSave ==
    \/ \E accounts \in AccountMaps : \E io \in IOs : SaveAccounts(accounts, io)
    \/ \E accounts \in AccountMaps : \E io \in IOs : SaveAccountsToDb(accounts, io)
    \/ \E a \in Accounts : \E data \in AccountDatas \cup EmptyDatas :
         \E ioLoad \in PollIOs : \E ioSave \in IOs : SaveAccount(a, data, ioLoad, ioSave)

SpecSave == InitStore /\ [][NextSave]_vars

\* C13: saving an empty account map is a no-op: a step of save_accounts({}) or
\* save_accounts_to_db({}), and a step of save_account with empty data or with
\* data whose values are all empty, leaves the table and the file as they were,
\* under every storage outcome.
C13_EmptySaveIsNoOp ==
    [][/\ \A io \in IOs :
            (SaveAccounts(EmptyDict, io) \/ SaveAccountsToDb(EmptyDict, io))
            => UNCHANGED storeVars
       /\ \A a \in Accounts : \A data \in EmptyDatas :
            \A ioLoad \in PollIOs : \A ioSave \in IOs :
               SaveAccount(a, data, ioLoad, ioSave) => UNCHANGED storeVars]_vars

\* both backings hold accounts, so an empty write would destroy something
C13_Witness ==
    /\ pgConfigured
    /\ db # EmptyDict
    /\ file.exists /\ file.accounts # EmptyDict
    /\ save_accounts(EmptyDict, IO0) = <<db, file>>

(***************************************************************************)
(* Properties of the onboarding.                                           *)
(***************************************************************************)
SavingStates == {"gmail_oauth_code", "gmail_pass", "custom_smtp_port"}

\* the store holds, under the account id of this session, a record with the
\* user name the session collected
StoredFor(sess, accounts) ==
    /\ AcctKey(sess.data["account_id"]) \in DOMAIN accounts
    /\ accounts[AcctKey(sess.data["account_id"])]["imap_user"] = sess.data["imap_user"]

\* C14: whenever the onboarding reports success (from the OAuth2, the Gmail
\* password or the custom-host branch), the store then holds the account record
\* of the session's account id and the session is cleared.
C14_SuccessMeansStored ==
    [][\A sender \in Senders :
         \A text \in PromptTexts(fsm[sender].state) :
            \A x \in SaveInputs(fsm[sender].state) :
               (/\ fsm[sender].state \in SavingStates
                /\ VoiceMessage(sender, TRUE, text, x)
                /\ answer' = "configured")
               => /\ StoredFor(fsm[sender], StoredAccounts')
                  /\ fsm'[sender] = Session0]_vars

\* the texts that are no port number between 1 and 65535
BadPorts == {"0", "70000", "nonsense"}

\* C15: malformed input re-prompts the same state: an e-mail address without "@"
\* in state gmail_user, and a port that is no integer or lies outside 1..65535 in
\* state custom_smtp_port, are answered with the error, leave the session (state
\* tag and fields) as it was and write nothing to the store.
C15_MalformedInputReprompts ==
    [][\A sender \in Senders : \A x \in SetupInputs(fsm[sender].state) :
         /\ (/\ sender = ownerId
             /\ fsm[sender].state = "gmail_user"
             /\ VoiceMessage(sender, TRUE, "nonsense", x))
            => (answer' = "bad_email" /\ fsm' = fsm /\ UNCHANGED storeVars)
         /\ \A text \in BadPorts :
              (/\ sender = ownerId
               /\ fsm[sender].state = "custom_smtp_port"
               /\ VoiceMessage(sender, TRUE, text, x))
              => (answer' = "bad_port" /\ fsm' = fsm /\ UNCHANGED storeVars)]_vars

\* the owner has just been asked again for the port of an account not yet stored
C15_Witness ==
    /\ answer = "bad_port"
    /\ fsm[ownerId].state = "custom_smtp_port"
    /\ AcctKey(fsm[ownerId].data["account_id"]) \notin DOMAIN StoredAccounts

\* C16: when the connectivity test of state custom_imap_pass fails, the state is
\* prompted again with the error and the session is otherwise unchanged: the
\* state tag and the fields collected so far are as before the input, and no
\* account is written to the store.
C16_FailedTestKeepsSession ==
    [][\A sender \in Senders : \A text \in PromptTexts(fsm[sender].state) :
         \A x \in SetupInputs(fsm[sender].state) :
            (/\ sender = ownerId
             /\ fsm[sender].state = "custom_imap_pass"
             /\ VoiceMessage(sender, TRUE, text, x)
             /\ answer' = "imap_error")
            => (fsm' = fsm /\ UNCHANGED storeVars)]_vars

\* the answers to an input the onboarding could not process
Refusals ==
    {"bad_email", "no_tokens", "need_app_password", "password_rejected",
     "connect_error", "app_password_rejected", "imap_error", "bad_port",
     "voice_failed", "ignored"}

\* C17: an onboarding session is never reset by the engine: an input that cannot
\* be processed leaves the session at the state it was in, and a session is
\* cleared only when the onboarding completed, that is when the account of the
\* session is in the store.
C17_NoForcedReset ==
    [][\A sender \in Senders :
         fsm[sender].state # "None"
         => /\ answer' \in Refusals => fsm'[sender].state = fsm[sender].state
            /\ fsm'[sender].state = "None" => StoredFor(fsm[sender], StoredAccounts')]_vars

\* C18: in state gmail_oauth_code the text "skip" moves the session to gmail_pass
\* and writes nothing; a code whose exchange succeeds puts the account with its
\* tokens into the store and ends the session; a code whose exchange fails
\* leaves the session in gmail_oauth_code and writes nothing.
C18_OAuthCodeStep ==
    [][\A sender \in Senders : \A text \in PromptTexts("gmail_oauth_code") :
         \A x \in SaveInputs("gmail_oauth_code") :
            (/\ sender = ownerId
             /\ fsm[sender].state = "gmail_oauth_code"
             /\ VoiceMessage(sender, TRUE, text, x))
            => IF Lower(text) = "skip"
               THEN fsm'[sender].state = "gmail_pass" /\ UNCHANGED storeVars
               ELSE IF x.tokensOk
               THEN /\ StoredFor(fsm[sender], StoredAccounts')
                    /\ "oauth_tokens" \in
                          DOMAIN StoredAccounts'[AcctKey(fsm[sender].data["account_id"])]
                    /\ fsm'[sender] = Session0
               ELSE fsm'[sender].state = "gmail_oauth_code" /\ UNCHANGED storeVars]_vars

(***************************************************************************)
(* Failures inside one poll cycle.                                         *)
(***************************************************************************)
\* caller p goes on with the message after the current one, or closes the
\* mailbox when the current one was the last of the batch
GoesOn(p) ==
    /\ poll'[p].acct = poll[p].acct
    /\ IF Len(poll[p].ids) > 1
       THEN /\ poll'[p].pc = "fetch"
            /\ poll'[p].msg = poll[p].ids[2]
            /\ poll'[p].ids = Tail(poll[p].ids)
       ELSE poll'[p].pc = "close"

\* C19: a failure on one message of the batch is isolated: when the fetch or the
\* parsing of a message fails, or a later step on that message raises, the
\* message is skipped and the same cycle goes on with the next message of the
\* batch, down to the last one.
C19_MessageFailureIsolated ==
    [][\A p \in Procs :
         (FetchDone(p, FALSE) \/ MarkDone(p, FALSE)) => GoesOn(p)]_vars

\* a caller works on the second message of a batch whose first message failed
C19_Witness ==
    \E p \in Procs :
        /\ poll[p].pc = "summarize"
        /\ poll[p].msg = 2
        /\ inbox[poll[p].acct] = <<1, 2>>
        /\ 1 \notin seen
        /\ \A l \in DOMAIN cache : cache[l].original_msg # 1
        /\ \A q \in Procs \ {p} : poll[q].pc = "idle"

\* the scheduled poll alone, over a transport whose calls may fail
NextTransport ==
    \/ \E a \in {a \in Accounts : AcctKey(a) \in DOMAIN db} : Deliver(a)
    \/ Tick
    \/ \E io \in PollIOs : \E f \in [Accounts -> PollIOs] : LoopIter(io, f)
    \/ PollStep("loop", {"ok", "notok", "imap", "exc"}, {TRUE}, {AnalysisOk})

SpecTransport == InitPoll /\ [][NextTransport]_vars

\* the case of a failed login, by the text of the server's answer: an
\* app-specific password is required, the credentials are rejected, or
\* something else went wrong
FailureCase(text) ==
    IF text.asp THEN "app_password_required"
    ELSE IF text.auth THEN "credentials_rejected"
    ELSE "other"

\* C20: a failed login while polling ends the cycle of that account (no message
\* is fetched, cached or marked seen) and the diagnostic sent tells the three
\* cases apart: it is not the diagnostic that a failure of another case gets.
C20_DiagnosticTellsCases ==
    [][\A p \in Procs : \A text \in ImapErrors : \A f \in [Accounts -> PollIOs] :
         ConnectDone(p, "imap", text, f)
         => /\ poll'[p].pc \in {"idle", "connect"}
            /\ poll'[p].acct # poll[p].acct
            /\ cache' = cache /\ seen' = seen
            /\ \A other \in ImapErrors :
                 FailureCase(other) # FailureCase(text)
                 => diag' # PollDiagnostic(poll[p].acct, "imap", other)]_vars

(***************************************************************************)
(* Further properties of the reply path.                                   *)
(***************************************************************************)
\* C21: a submission that fails with an authentication error gives a result
\* that differs from the one of a generic transport failure (not ok, with its
\* own detail, which the entry point answers with) and sends one diagnostic
\* notification.
C21_AuthFailureDistinct ==
    [][\A local_id \in LocalIds : \A polishOk \in BOOLEAN : \A n \in 1..2 :
         (/\ \/ ReplyCommand(ownerId, local_id, "hi", polishOk, IO0, "auth")
             \/ UseReplyCallback(ownerId, local_id, n, polishOk, IO0, "auth")
             \/ VoiceMessage(ownerId, TRUE, "hi",
                             [X0 EXCEPT !.polishOk = polishOk, !.smtp = "auth"])
          /\ Len(submits') = Len(submits) + 1)
         => /\ answer' = "send_failed: auth"
            /\ answer' # SendFailed("error")
            /\ notes' = notes (+) SetToBag({ErrorNote})]_vars

\* the owner has just been told that the submission failed on authentication
C21_Witness ==
    /\ answer = "send_failed: auth"
    /\ Len(submits) = 1
    /\ ErrorNote \in BagToSet(notes)

(***************************************************************************)
(* The scheduled poll and the shutdown signal.                             *)
(***************************************************************************)
NextShutdown ==
    \/ \E a \in {a \in Accounts : AcctKey(a) \in DOMAIN db} : Deliver(a)
    \/ Tick
    \/ \E io \in PollIOs : \E f \in [Accounts -> PollIOs] : LoopIter(io, f)
    \/ PollStep("loop", {"ok"}, {TRUE}, {AnalysisOk})
    \/ Shutdown

SpecShutdown == InitPoll /\ [][NextShutdown]_vars

\* C22: once the shutdown signal was raised, the scheduling loop and its poll in
\* flight start nothing new: no further message of the current batch is
\* fetched and no further account of the current cycle is connected to.
C22_NothingStartedAfterShutdown ==
    [][~running
       => /\ ~(/\ poll'["loop"].pc = "fetch"
               /\ poll'["loop"].msg # poll["loop"].msg)
          /\ ~(/\ poll'["loop"].pc = "connect"
               /\ poll'["loop"].acct # poll["loop"].acct)]_vars

(***************************************************************************)
(* The scheduled poll of two accounts over a transport that may fail.      *)
(***************************************************************************)
InitCycle ==
    /\ pgConfigured = TRUE
    /\ db = [k \in {"1", "2"} |-> IF k = "1" THEN SomeAccount ELSE OtherAccount]
    /\ envJson = [state |-> "unset", accounts |-> EmptyDict]
    /\ file = [exists |-> FALSE, accounts |-> EmptyDict]
    /\ InitMail /\ InitPoller
    /\ InitBotVars("7") /\ oauthConfigured = FALSE

\* mail arrives at account 1; the mailbox of account 2 stays empty
NextCycle ==
    \/ Deliver(1)
    \/ Tick
    \/ LoopIter(IO0, F0)
    \/ PollStep("loop", {"ok", "notok", "imap", "exc"}, {TRUE}, {AnalysisOk})

SpecCycle == InitCycle /\ [][NextCycle]_vars

\* the poll of the account the loop is in ends with an error
PollFails(f) ==
    \E kind \in {"imap", "exc"} : \E text \in TextsOf(kind) :
        \/ ConnectDone("loop", kind, text, f)
        \/ SearchDone("loop", kind, text, f)
        \/ CloseDone("loop", kind, text, f)

\* C23: an error of the transport is never fatal to the scheduling loop: when
\* the poll of one account ends with an error, the loop polls the account that
\* is still to come in this cycle, and after the last account it goes to its
\* delay, from where the next cycle starts while no shutdown was asked for.
C23_ErrorsNeverFatal ==
    [][\A f \in [Accounts -> PollIOs] :
         PollFails(f)
         => IF todo["loop"] # <<>> /\ Usable(get_account(Head(todo["loop"]), f[Head(todo["loop"])]))
            THEN /\ poll'["loop"].pc = "connect"
                 /\ poll'["loop"].acct = Head(todo["loop"])
                 /\ loopPc' = "busy"
            ELSE /\ poll'["loop"].pc = "idle"
                 /\ loopPc' = "sleep"
                 /\ running]_vars

\* the poll of account 1 has failed and the loop is connecting to account 2
C23_Witness ==
    /\ diag # <<>> /\ diag[1] = 1
    /\ poll["loop"].pc = "connect"
    /\ poll["loop"].acct = 2
    /\ cache = EmptyDict /\ seen = {}
    /\ inbox[1] # <<>>

(***************************************************************************)
(* handle_reply cut at its call of polish_reply.  polish_reply is a plain  *)
(* function called without await and without an executor, so the thread    *)
(* of the event loop is inside it until it returns and no other coroutine  *)
(* is resumed meanwhile.                                                   *)
(***************************************************************************)
\* handle_reply from its start to the call polish_reply(draft_text, context)
ReplyCall(sender, local_id, draft) ==
    /\ calling = NoCall
    /\ check_owner(sender)
    /\ draft # ""
    /\ get_email_from_cache(local_id) # EmptyDict
    /\ calling' = [call |-> "polish_reply", sender |-> sender,
                   local_id |-> local_id, draft |-> draft]
    /\ UNCHANGED <<ownerId, oauthConfigured, fsm, submits, answer,
                   storeVars, mailVars, pollVars>>

\* polish_reply returns; the handler submits the text and answers
ReplyReturn(polishOk, io, smtp) ==
    /\ calling.call = "polish_reply"
    /\ SendReply(calling.sender, fsm[calling.sender],
                 get_email_from_cache(calling.local_id), calling.draft,
                 polishOk, io, smtp)

\* a step of the scheduling loop, which the event loop can run only while its
\* thread is free
LoopStep ==
    /\ calling = NoCall
    /\ \/ LoopIter(IO0, F0)
       \/ PollStep("loop", {"ok"}, {TRUE}, {AnalysisOk})

NextBlocking ==
    \/ Deliver(1)
    \/ Tick
    \/ LoopStep
    \/ \E local_id \in LocalIds : ReplyCall(ownerId, local_id, "hi")
    \/ \E polishOk \in BOOLEAN : \E smtp \in SmtpOutcomes : ReplyReturn(polishOk, IO0, smtp)

SpecBlocking == InitBot /\ [][NextBlocking]_vars

\* C24: every collaborator call is a suspension point: while the polishing call
\* of a reply is in progress, the scheduling loop, whose delay is over, can
\* still take its next step.
C24_PolishDoesNotBlock ==
    (calling.call = "polish_reply" /\ loopPc = "sleep" /\ running) => ENABLED LoopStep

(***************************************************************************)
(* Writers of the shared stores.                                           *)
(***************************************************************************)
\* caller p has built the local id of its message and has not yet stored the
\* entry: it waits for the priority/category analysis
WritingEntry(p) == poll[p].pc = "analyze"

\* C25: writes to the shared stores are serialised per key: no two callers are
\* at the same time in the middle of writing the cache entry of one local id.
C25_OneWriterPerKey ==
    \A p \in Procs : \A q \in Procs \ {p} :
        ~(/\ WritingEntry(p) /\ WritingEntry(q)
          /\ LocalId(poll[p].acct, poll[p].ts) = LocalId(poll[q].acct, poll[q].ts))

(***************************************************************************)
(* The reply target.                                                       *)
(***************************************************************************)
\* the sender field is a display name followed by one address in angle brackets
AngleForm(f) ==
    \E i \in 1..Len(f) : \E j \in 1..Len(f) :
        /\ i < j /\ f[i] = "<" /\ f[j] = ">"
        /\ \A k \in 1..Len(f) \ {i, j} : f[k] \notin {"<", ">"}

\* what stands between the angle brackets
InsideAngles(f) ==
    LET i == CHOOSE i \in 1..Len(f) : f[i] = "<"
        j == CHOOSE j \in 1..Len(f) : f[j] = ">"
    IN  SubSeq(f, i + 1, j - 1)

InitBatch ==
    /\ InitStoreOne /\ InitPoller
    /\ InitBotVars("7") /\ oauthConfigured = FALSE
    /\ inbox = [a \in Accounts |-> IF a = 1 THEN [i \in 1..Backlog |-> i] ELSE <<>>]
    /\ seen = {}
    /\ nmsgs = Backlog
    /\ now = 0

\* the clock over the time one batch takes
BatchTick ==
    /\ now < MaxBatchTime
    /\ now' = now + 1
    /\ UNCHANGED <<inbox, seen, nmsgs, storeVars, botVars, pollVars>>

\* the transport and the collaborators answer
NextBatch ==
    \/ BatchTick
    \/ LoopIter(IO0, F0)
    \/ ConnectDone("loop", "ok", NoText, F0)
    \/ SearchDone("loop", "ok", NoText, F0)
    \/ FetchDone("loop", TRUE)
    \/ SummarizeDone("loop", TRUE)
    \/ AnalyzeDone("loop", AnalysisOk.ok, AnalysisOk.res)
    \/ MarkDone("loop", TRUE)
    \/ NotifyDone("loop")
    \/ CloseDone("loop", "ok", NoText, F0)

SpecBatch == InitBatch /\ [][NextBatch]_vars

\* the unread messages of account a, in the order the search returns them
Unseen(a) == SelectSeq(inbox[a], LAMBDA m : m \notin seen)

\* the messages the cache holds
Cached == {cache[k].original_msg : k \in DOMAIN cache}

\* the messages notified of
Notified == {cache[n.local_id].original_msg : n \in BagToSet(notes)}

\* C27: one poll cycle of one account processes at most 10 messages, the first 10
\* entries of the unseen-search result in search order: the search step leaves
\* exactly that prefix as the batch, the batch only shrinks until the cycle ends,
\* and a message is fetched, cached, notified of or marked seen only while it is
\* the head of the batch, so an entry beyond the tenth is left alone.
C27_BatchIsFirstTen ==
    [][LET r == poll["loop"]
           r2 == poll'["loop"]
           u == Unseen(r.acct)
       IN  /\ (r.pc = "search" /\ r2.pc # "search")
                 => /\ Len(r2.ids) <= 10
                    /\ r2.ids = SubSeq(u, 1, IF Len(u) < 10 THEN Len(u) ELSE 10)
           /\ (r.pc \notin {"idle", "connect", "search"})
                 => /\ Len(r2.ids) <= Len(r.ids)
                    /\ r2.msg # 0 => (r2.ids # <<>> /\ r2.msg = Head(r2.ids))
                    /\ (seen' \ seen) \subseteq {r.msg}
                    /\ \A k \in DOMAIN cache' \ DOMAIN cache : cache'[k].original_msg = r.msg
                    /\ \A n \in BagToSet(notes') \ BagToSet(notes) :
                           cache'[n.local_id].original_msg = r.msg]_vars

\* the cycle over the backlog is at its end: ten messages are done, the eleventh
\* is still unread and was not touched
C27_Witness ==
    /\ poll["loop"].pc = "close"
    /\ seen = 1..10
    /\ Cached = 1..10
    /\ Notified = 1..10
    /\ Len(Unseen(1)) >= 1
    /\ Head(Unseen(1)) = 11

(***************************************************************************)
(* The onboarding over what a transcript can hold: the transcript of a     *)
(* voice message without speech is the empty text.                         *)
(***************************************************************************)
TranscriptTexts(state) ==
    IF state = "custom_smtp_host" THEN {"smtp.x.com", ""} ELSE PromptTexts(state)

RecordsUpdate(sender) ==
    \/ \E a \in Accounts : \E provider \in {"gmail", "custom"} :
           SetupCallback(sender, a, provider)
    \/ \E text \in TranscriptTexts(fsm[sender].state) : VoiceMessage(sender, TRUE, text, X0)

NextRecords == \E sender \in Senders : RecordsUpdate(sender)

SpecRecords == InitSetup /\ [][NextRecords]_vars

\* every transport field of an account record is present: retrieval host, user,
\* credential payload (password or token set), submission host and port
FullyPopulated(account) ==
    /\ TruthyField(account, "imap_host")
    /\ TruthyField(account, "imap_user")
    /\ TruthyField(account, "imap_pass") \/ TruthyField(account, "oauth_tokens")
    /\ TruthyField(account, "smtp_host")
    /\ TruthyField(account, "smtp_port")

\* C28: in every reachable state each account in the Credential Store is fully
\* populated: no partial or empty account record is persisted by any sequence of
\* onboarding inputs.
C28_StoredAccountsComplete ==
    \A k \in DOMAIN StoredAccounts : FullyPopulated(StoredAccounts[k])

(***************************************************************************)
(* The thread view of the cache (/thread <ID>).  get_email_thread is       *)
(* imported from app.email_client by handle_thread and handle_callback but *)
(* is not part of the source at hand; it is modelled as section 4.3 and    *)
(* the Thread entry of the data model describe it.                         *)
(***************************************************************************)
\* case folding of one token of a subject
FoldToken(tok) ==
    IF tok = "Status" THEN "status" ELSE IF tok = "Re:" THEN "re:" ELSE tok

RECURSIVE StripReply(_)
\* the subject without its leading reply prefixes
StripReply(s) ==
    IF s # <<>> /\ Head(s) = "re:" THEN StripReply(Tail(s)) ELSE s

\* the normalized subject: case-folded, reply-prefix stripped
NormalizedSubject(subject) ==
    StripReply([i \in 1..Len(subject) |-> FoldToken(subject[i])])

\* receipt time of a cached message: the arrival timestamp its local id carries
ReceiptTime(e) == e.local_id[2]

RECURSIVE ByReceiptTime(_)
\* the messages of S in ascending receipt time (the account breaks a tie)
ByReceiptTime(S) ==
    IF S = {} THEN <<>>
    ELSE LET first == CHOOSE e \in S : \A o \in S :
                          \/ ReceiptTime(e) < ReceiptTime(o)
                          \/ /\ ReceiptTime(e) = ReceiptTime(o)
                             /\ e.account_id <= o.account_id
         IN  <<first>> \o ByReceiptTime(S \ {first})

\* a thread of the messages whose subject line is literally the same
get_email_thread_literal(email_data) ==
    ByReceiptTime({cache[k] : k \in {j \in DOMAIN cache :
                                        cache[j].subject = email_data.subject}})

\* threadOf: a linear scan of the cache comparing normalized subjects
get_email_thread(email_data) ==
    ByReceiptTime({cache[k] : k \in {j \in DOMAIN cache :
        NormalizedSubject(cache[j].subject) = NormalizedSubject(email_data.subject)}})

\* handle_thread: /thread <ID>
ThreadCommand(sender, local_id) ==
    IF ~check_owner(sender) THEN Denied(sender)
    ELSE IF get_email_from_cache(local_id) = EmptyDict THEN Keep(sender, "not_found")
    ELSE IF Len(get_email_thread(get_email_from_cache(local_id))) = 1
    THEN Keep(sender, "no_thread")
    ELSE Keep(sender, "thread")

\* the scheduled poll fills the cache while the owner asks for threads
NextThread ==
    \/ \E a \in {a \in Accounts : AcctKey(a) \in DOMAIN db} : Deliver(a)
    \/ Tick
    \/ LoopIter(IO0, F0)
    \/ PollStep("loop", {"ok"}, {TRUE}, {AnalysisOk})
    \/ \E local_id \in LocalIds : ThreadCommand(ownerId, local_id)

SpecThread == InitPoll /\ [][NextThread]_vars

C30_TextReachesTextHandler ==
    [][TextMessage(ownerId)
       => \E text \in PromptTexts(fsm[ownerId].state) \ {"/start"} :
              \E x \in SetupInputs(fsm[ownerId].state) :
                  handle_text_message(ownerId, text, x)]_vars

(***************************************************************************)
(* The owner at the bot with one message of each account in the cache:     *)
(* the reply buttons, /reply and the onboarding dialogue in any order.     *)
(***************************************************************************)
DeskIds == {LocalId(1, 1), LocalId(2, 2)}

InitDesk ==
    /\ pgConfigured = TRUE
    /\ db = [k \in {"1", "2"} |-> IF k = "1" THEN SomeAccount ELSE OtherAccount]
    /\ envJson = [state |-> "unset", accounts |-> EmptyDict]
    /\ file = [exists |-> FALSE, accounts |-> EmptyDict]
    /\ inbox = [a \in Accounts |-> <<a>>]
    /\ seen = {1, 2}
    /\ nmsgs = 2
    /\ now = 2
    /\ cache = [l \in DeskIds |->
                   EmailData(l[1], l[1], l[2], summarize_email(TRUE), AnalysisOk.res)]
    /\ notes = SetToBag({Notification(l, AnalysisOk.res) : l \in DeskIds})
    /\ diag = <<>>
    /\ poll = [p \in Procs |-> Idle]
    /\ todo = [p \in Procs |-> <<>>]
    /\ loopPc = "sleep"
    /\ running = TRUE
    /\ InitBotVars("7") /\ oauthConfigured = FALSE

NextDesk ==
    \/ \E local_id \in DeskIds : ReplyCommand(ownerId, local_id, "hi", TRUE, IO0, "ok")
    \/ \E local_id \in DeskIds : QuickReplyCallback(ownerId, local_id, TRUE)
    \/ \E local_id \in DeskIds : UseReplyCallback(ownerId, local_id, 1, TRUE, IO0, "ok")
    \/ \E local_id \in DeskIds : CustomReplyCallback(ownerId, local_id)
    \/ \E provider \in {"gmail", "custom"} : SetupCallback(ownerId, 1, provider)
    \/ \E text \in PromptTexts(fsm[ownerId].state) : VoiceMessage(ownerId, TRUE, text, X0)

SpecDesk == InitDesk /\ [][NextDesk]_vars

\* the onboarding states that collect a credential
CredentialStates == {"gmail_pass", "custom_imap_pass", "gmail_oauth_code"}

\* C31: text that the operator enters while the onboarding session is in a
\* credential-collecting state is never submitted to the mail transport as a
\* reply body, in any interleaving of the custom-reply button with the
\* onboarding dialogue.
C31_CredentialNeverSent ==
    [][\A text \in PromptTexts(fsm[ownerId].state) :
          (/\ fsm[ownerId].state \in CredentialStates
           /\ VoiceMessage(ownerId, TRUE, text, X0))
          => submits' = submits]_vars

\* C32: when the operator picks a suggestion for local id L, the text that is
\* polished and sent to L's sender is a suggestion that was generated for L:
\* after any sequence of quick-reply requests for different messages, a
\* suggestion generated for one message is never sent in reply to another.
C32_SuggestionOfSameMessage ==
    [][\A local_id \in DeskIds :
          (/\ UseReplyCallback(ownerId, local_id, 1, TRUE, IO0, "ok")
           /\ submits' # submits)
          => LET mail == submits'[Len(submits')]
             IN  /\ mail.to = ToEmail(cache[local_id].from)
                 /\ mail.body = polish_reply(SuggestionFor(local_id), TRUE)]_vars

\* C33: every account that onboarding persisted, from any branch including
\* OAuth2, is usable by its consumers: the next poll of that account attempts a
\* connection instead of skipping it as unconfigured, and a reply through it
\* reaches the submit step instead of failing with a missing-settings result.
C33_PersistedAccountUsable ==
    \A a \in Accounts :
        AcctKey(a) \in DOMAIN StoredAccounts
        => /\ NextCall(<<a>>, F0)[1].pc = "connect"
           /\ send_email_smtp(a, <<"jane@x.com">>, ReSubject(<<"Status">>),
                              polish_reply("hi", TRUE), IO0, "ok").submit

\* the PostgreSQL statements of the save fail, the file can be written
IODbFail == [pg |-> TRUE, dbok |-> FALSE, fok |-> TRUE]

\* C34: round trip of the Credential Store: after save_account(id, data) with
\* non-empty data returns, get_account(id) returns data, whichever backing
\* source is in effect (PostgreSQL, the environment-supplied snapshot, or the
\* file) and also when the PostgreSQL write fails and the file fallback is used.
C34_SaveThenGet ==
    [][\A a \in Accounts : \A data \in AccountDatas : \A ioSave \in {IO0, IODbFail} :
          SaveAccount(a, data, IO0, ioSave) => get_account(a, IO0)' = data]_vars

(***************************************************************************)
(* The scheduled poll over the backlog when the oldest messages cannot be  *)
(* processed: the fetch of each of the first nine fails in every cycle     *)
(* (the `except` of the loop body goes on to the next message and leaves   *)
(* the message unread), the fetch of a later one may fail or succeed.      *)
(* Poll cycles are scheduled fairly.                                       *)
(***************************************************************************)
NextStarve ==
    \/ BatchTick
    \/ LoopIter(IO0, F0)
    \/ ConnectDone("loop", "ok", NoText, F0)
    \/ SearchDone("loop", "ok", NoText, F0)
    \/ \E ok \in (IF poll["loop"].msg < BatchCap THEN {FALSE} ELSE BOOLEAN) :
           FetchDone("loop", ok)
    \/ SummarizeDone("loop", TRUE)
    \/ AnalyzeDone("loop", AnalysisOk.ok, AnalysisOk.res)
    \/ MarkDone("loop", TRUE)
    \/ NotifyDone("loop")
    \/ CloseDone("loop", "ok", NoText, F0)

SpecStarve == InitBatch /\ [][NextStarve]_vars /\ WF_vars(NextStarve)

\* C35: under fair scheduling of poll cycles for a configured account whose
\* connection succeeds, every unseen message is eventually cached and notified,
\* even when other messages of the backlog fail to process in every cycle: the
\* message behind the first ten of the backlog is eventually cached and notified
\* (or the clock of the model has run out before).
C35_BacklogEventuallyCached ==
    <>(\/ (BatchCap + 1) \in Cached /\ (BatchCap + 1) \in Notified
       \/ now = MaxBatchTime)

\* C36: no inbox message is cached more than once: over any sequence of poll
\* cycles, including a cycle in which mark-seen fails after caching and a
\* manually triggered check that runs alongside the scheduled one, each
\* transport message yields at most one CachedMessage and at most one
\* notification.
C36_CachedAtMostOnce ==
    /\ \A k \in DOMAIN cache : \A j \in DOMAIN cache :
           cache[k].original_msg = cache[j].original_msg => k = j
    /\ \A m \in 1..nmsgs :
           LET ids == {l \in DOMAIN cache : cache[l].original_msg = m}
               S == {n \in BagToSet(notes) : n.local_id \in ids}
           IN  BagCardinality([n \in S |-> notes[n]]) <= 1

\* C37: whenever a newly started onboarding (a press of a setup button) reaches
\* the password prompt of Gmail, the needs-elevated-credential flag is false, so
\* the first password attempt of every onboarding run takes the first-attempt
\* path; a flag set in an earlier, abandoned run never carries over.
C37_FlagStartsFalse ==
    [][(/\ fsm[ownerId].state # "gmail_pass"
        /\ fsm'[ownerId].state = "gmail_pass")
       => ~DictGet(fsm'[ownerId].data, "needs_app_password", FALSE)]_vars

\* the retrieval host, user and password of a session or of an account record
ImapTriple(d) ==
    <<DictGet(d, "imap_host", ""), DictGet(d, "imap_user", ""), DictGet(d, "imap_pass", "")>>

\* the states of the custom set-up behind the connectivity test
TestedStates == {"custom_smtp_host", "custom_smtp_port"}

\* C38: an account record persisted by a password branch (Gmail password or
\* custom host) carries exactly the host, user and password for which the most
\* recent IMAP connectivity test succeeded; no sequence of inputs, including a
\* restart of the set-up in mid-dialogue, persists credentials that were not
\* tested successfully.  Step by step: a failed test neither persists nor moves
\* on; a successful test of the custom branch keeps host and user and takes the
\* tested password into the session; the states behind the test are entered
\* only through it and keep the three fields; the record written is the tested
\* triple.
C38_OnlyTestedCredentials ==
    [][LET s == fsm[ownerId]
           s2 == fsm'[ownerId]
           key == AcctKey(DictGet(s.data, "account_id", 0))
       IN  /\ \A text \in PromptTexts(s.state) : \A x \in SetupInputs(s.state) :
                 VoiceMessage(ownerId, TRUE, text, x)
                 => /\ (s.state = "custom_imap_pass"
                           /\ ~test_imap_connection(s.data["imap_host"], x.kind, x.text)[1])
                       => (s2.state = "custom_imap_pass" /\ db' = db /\ file' = file)
                    /\ (s.state = "custom_imap_pass"
                           /\ test_imap_connection(s.data["imap_host"], x.kind, x.text)[1])
                       => ImapTriple(s2.data)
                             = <<s.data["imap_host"], s.data["imap_user"], text>>
                    /\ (s.state = "gmail_pass"
                           /\ ~test_imap_connection("imap.gmail.com", x.kind, x.text)[1])
                       => (db' = db /\ file' = file)
                    /\ (s.state = "gmail_pass"
                           /\ test_imap_connection("imap.gmail.com", x.kind, x.text)[1])
                       => ImapTriple(StoredAccounts'[key])
                             = <<"imap.gmail.com", s.data["imap_user"], StripPassword(text)>>
                    /\ s.state = "custom_smtp_port" /\ db' # db
                       => ImapTriple(StoredAccounts'[key]) = ImapTriple(s.data)
           /\ s2.state \in TestedStates
                 => \/ s.state = "custom_imap_pass"
                    \/ s.state \in TestedStates /\ ImapTriple(s2.data) = ImapTriple(s.data)
           /\ db' # db => s.state \in {"custom_smtp_port", "gmail_pass", "gmail_oauth_code"}]_vars

\* both password branches have persisted a record: account 1 through the Gmail
\* password prompt, account 2 through the custom set-up
C38_Witness ==
    /\ answer = "configured"
    /\ "2" \in DOMAIN StoredAccounts
    /\ ImapTriple(StoredAccounts["2"]) = <<"imap.x.com", "me@x.com", "secret">>
    /\ ImapTriple(StoredAccounts["1"]) = <<"imap.gmail.com", "me@gmail.com", "abcdef">>

(***************************************************************************)
(* Both accounts are polled by the scheduling loop while the owner replies *)
(* to what the cache holds, by /reply, by a suggested reply and by a reply *)
(* of their own.                                                           *)
(***************************************************************************)
\* the message of account 1 is cached, the one of account 2 is still unread
InitRoute ==
    /\ pgConfigured = TRUE
    /\ db = [k \in {"1", "2"} |-> IF k = "1" THEN SomeAccount ELSE OtherAccount]
    /\ envJson = [state |-> "unset", accounts |-> EmptyDict]
    /\ file = [exists |-> FALSE, accounts |-> EmptyDict]
    /\ inbox = [a \in Accounts |-> <<a>>]
    /\ seen = {1}
    /\ nmsgs = 2
    /\ now = 1
    /\ cache = [l \in {LocalId(1, 1)} |->
                   EmailData(1, 1, 1, summarize_email(TRUE), AnalysisOk.res)]
    /\ notes = SetToBag({Notification(LocalId(1, 1), AnalysisOk.res)})
    /\ diag = <<>>
    /\ poll = [p \in Procs |-> Idle]
    /\ todo = [p \in Procs |-> <<>>]
    /\ loopPc = "sleep"
    /\ running = TRUE
    /\ InitBotVars("7") /\ oauthConfigured = FALSE

NextRoute ==
    \/ Tick
    \/ LoopIter(IO0, F0)
    \/ ConnectDone("loop", "ok", NoText, F0)
    \/ SearchDone("loop", "ok", NoText, F0)
    \/ FetchDone("loop", TRUE)
    \/ SummarizeDone("loop", TRUE)
    \/ AnalyzeDone("loop", AnalysisOk.ok, AnalysisOk.res)
    \/ MarkDone("loop", TRUE)
    \/ NotifyDone("loop")
    \/ CloseDone("loop", "ok", NoText, F0)
    \/ \E local_id \in DOMAIN cache : ReplyCommand(ownerId, local_id, "hi", TRUE, IO0, "ok")
    \/ \E local_id \in DOMAIN cache : QuickReplyCallback(ownerId, local_id, TRUE)
    \/ \E local_id \in DOMAIN cache : UseReplyCallback(ownerId, local_id, 1, TRUE, IO0, "ok")
    \/ \E local_id \in DOMAIN cache : CustomReplyCallback(ownerId, local_id)
    \/ VoiceMessage(ownerId, TRUE, "hi", X0)

SpecRoute == InitRoute /\ [][NextRoute]_vars

\* the account the last submission went through
LastAccount == submits'[Len(submits')].account

\* C39: every cache entry is stored under its own local id, whose prefix is the
\* id of the account that fetched it, and every reply to a cached message is
\* submitted through that same account, on the /reply, suggested-reply and
\* custom-reply paths alike.
C39_ReplyThroughFetchingAccount ==
    [][/\ \A k \in DOMAIN cache' :
              /\ cache'[k].local_id = k
              /\ k[1] = cache'[k].account_id
              /\ \E i \in 1..Len(inbox'[k[1]]) : inbox'[k[1]][i] = cache'[k].original_msg
       /\ \A local_id \in DOMAIN cache :
              /\ (ReplyCommand(ownerId, local_id, "hi", TRUE, IO0, "ok") /\ submits' # submits)
                    => LastAccount = local_id[1]
              /\ (UseReplyCallback(ownerId, local_id, 1, TRUE, IO0, "ok") /\ submits' # submits)
                    => LastAccount = local_id[1]
              /\ (/\ VoiceMessage(ownerId, TRUE, "hi", X0)
                  /\ DictGet(fsm[ownerId].data, "custom_reply_id", NoLocalId) = local_id
                  /\ submits' # submits)
                    => LastAccount = local_id[1]]_vars

\* messages of both accounts are cached and a reply went out through account 2
C39_Witness ==
    /\ \E k \in DOMAIN cache : k[1] = 1
    /\ \E k \in DOMAIN cache : k[1] = 2
    /\ submits # <<>>
    /\ submits[1].account = 2
    /\ submits[1].to = <<"bob@y.com">>

(***************************************************************************)
(* The scheduling loop and the shutdown signal when the steps of the loop  *)
(* (the poll in progress, the delay between cycles) complete and time      *)
(* passes.                                                                 *)
(***************************************************************************)
LoopProgress ==
    \/ \E io \in PollIOs : \E f \in [Accounts -> PollIOs] : LoopIter(io, f)
    \/ PollStep("loop", {"ok"}, {TRUE}, {AnalysisOk})

SpecStop ==
    InitPoll /\ [][NextShutdown]_vars /\ WF_vars(LoopProgress) /\ WF_vars(Tick)

\* the poll in progress cannot complete within the time the model covers: the
\* summarize call began at the last instant of the clock
PollCutOff == poll["loop"].pc = "summarize" /\ poll["loop"].ts = MaxTime

\* C40: once the shutdown signal has set running to false, email_checker_loop
\* begins no new iteration of the poll cycle and eventually terminates, provided
\* the poll in progress and the inter-cycle delay complete.
C40_LoopStopsAfterSignal ==
    /\ [][(~running /\ loopPc \in {"top", "sleep"}) => loopPc' \in {loopPc, "stopped"}]_vars
    /\ (~running) ~> (loopPc = "stopped" \/ PollCutOff)

\* the signal arrived while a message was being processed; the poll went on to
\* its end and the loop has terminated
C40_Witness ==
    /\ ~running
    /\ loopPc = "stopped"
    /\ seen # {}
    /\ poll["loop"].pc = "idle"

====
